---------------------------- MODULE Spec2Model ----------------------------
(***************************************************************************)
(* WC3 Sounds, a pi extension (src/index.ts): voice lines played on the    *)
(* host's lifecycle events, from a sound pack chosen by the active model.  *)
(*                                                                         *)
(* Strings the code inspects character by character (model ids and         *)
(* providers, the /wc3-volume inputs) are sequences of one-character       *)
(* strings; strings the code only compares or passes on (pack ids,         *)
(* categories, file names, lines) are TLA+ strings.  A character that has  *)
(* no printable form is written as its code point, "U+00A0", and is one    *)
(* character of the sequence.                                              *)
(***************************************************************************)
EXTENDS Integers, Sequences, FiniteSets, Bags, TLC

(***************************************************************************)
(* Bounds of the model.                                                    *)
(***************************************************************************)
\* Longest sound list of a category in the modelled manifests.
MaxSounds == 3
\* Math.random() is drawn from the grid {0/RandGrid, ..., (RandGrid-1)/RandGrid},
\* fine enough for every index of the longest list to be drawn.
RandGrid == MaxSounds
\* The whole program is followed for ProgramSec seconds, with at most
\* ProgramTimers status clears pending and ProgramStamps entries in
\* promptTimestamps.
ProgramSec == 5
ProgramTimers == 1
ProgramStamps == 1
\* The burst detector alone is followed for BurstSec seconds, with at most
\* MaxStamps entries in promptTimestamps.
BurstSec == 13
MaxStamps == 4
\* The agent_start handler is followed for AgentTicks steps of 5 seconds,
\* with at most AgentStamps entries in promptTimestamps and AgentTimers
\* status clears pending.
AgentTicks == 3
AgentStamps == 3
AgentTimers == 1
\* The status channel is followed for StatusSec seconds, with at most
\* StatusTimers status clears pending.
StatusSec == 5
StatusTimers == 2

(***************************************************************************)
(* Program constants.                                                      *)
(***************************************************************************)
ANNOYED_THRESHOLD == 3
ANNOYED_WINDOW_MS == 10000

\* The delays of the setTimeout calls that clear the status channel.
CLEAR_MS == 3000
CLEAR_COMPLETE_MS == 4000

\* JavaScript's undefined and null, for values the code tests for absence.
Undefined == "<undefined>"
Null == "<null>"

Packs == {"peon", "peasant"}

\* type Category
Categories ==
    {"greeting", "acknowledge", "complete", "error", "permission", "annoyed"}

(***************************************************************************)
(* String helpers: String.prototype.toLowerCase and .includes.             *)
(*                                                                         *)
(* toLowerCase is followed on the characters of ASCII and Latin-1 (U+0000  *)
(* to U+00FF), the white space characters, and U+0130, U+212A, U+212B,     *)
(* U+0307 and U+200B; a character outside these has no lower case in the   *)
(* model.  Among them a capital letter lowers to one letter, except U+0130 *)
(* (capital I with dot above), which lowers to "i" and U+0307, and U+212A  *)
(* (Kelvin sign) and U+212B (Angstrom sign), which lower to "k" and to     *)
(* U+00E5.                                                                 *)
(***************************************************************************)
UpperChars ==
    <<"A","B","C","D","E","F","G","H","I","J","K","L","M",
      "N","O","P","Q","R","S","T","U","V","W","X","Y","Z",
      "U+00C0", "U+00C1", "U+00C2", "U+00C3", "U+00C4", "U+00C5",
      "U+00C6", "U+00C7", "U+00C8", "U+00C9", "U+00CA", "U+00CB",
      "U+00CC", "U+00CD", "U+00CE", "U+00CF", "U+00D0", "U+00D1",
      "U+00D2", "U+00D3", "U+00D4", "U+00D5", "U+00D6", "U+00D8",
      "U+00D9", "U+00DA", "U+00DB", "U+00DC", "U+00DD", "U+00DE",
      "U+212A", "U+212B">>
LowerChars ==
    <<"a","b","c","d","e","f","g","h","i","j","k","l","m",
      "n","o","p","q","r","s","t","u","v","w","x","y","z",
      "U+00E0", "U+00E1", "U+00E2", "U+00E3", "U+00E4", "U+00E5",
      "U+00E6", "U+00E7", "U+00E8", "U+00E9", "U+00EA", "U+00EB",
      "U+00EC", "U+00ED", "U+00EE", "U+00EF", "U+00F0", "U+00F1",
      "U+00F2", "U+00F3", "U+00F4", "U+00F5", "U+00F6", "U+00F8",
      "U+00F9", "U+00FA", "U+00FB", "U+00FC", "U+00FD", "U+00FE",
      "k", "U+00E5">>

\* The modelled characters that toLowerCase leaves as they are ("U+0060" is
\* the grave accent).
Uncased ==
    { "\t", "\n", "\f", "\r", "U+000B",
      " ", "!", "\"", "#", "$", "%", "&", "'", "(", ")", "*", "+",
      ",", "-", ".", "/", "0", "1", "2", "3", "4", "5", "6", "7",
      "8", "9", ":", ";", "<", "=", ">", "?", "@", "[", "\\", "]",
      "^", "_", "U+0060", "a", "b", "c", "d", "e", "f", "g", "h", "i",
      "j", "k", "l", "m", "n", "o", "p", "q", "r", "s", "t", "u",
      "v", "w", "x", "y", "z", "{", "|", "}", "~",
      "U+0080", "U+0081", "U+0082", "U+0083", "U+0084", "U+0085",
      "U+0086", "U+0087", "U+0088", "U+0089", "U+008A", "U+008B",
      "U+008C", "U+008D", "U+008E", "U+008F", "U+0090", "U+0091",
      "U+0092", "U+0093", "U+0094", "U+0095", "U+0096", "U+0097",
      "U+0098", "U+0099", "U+009A", "U+009B", "U+009C", "U+009D",
      "U+009E", "U+009F", "U+00A0", "U+00A1", "U+00A2", "U+00A3",
      "U+00A4", "U+00A5", "U+00A6", "U+00A7", "U+00A8", "U+00A9",
      "U+00AA", "U+00AB", "U+00AC", "U+00AD", "U+00AE", "U+00AF",
      "U+00B0", "U+00B1", "U+00B2", "U+00B3", "U+00B4", "U+00B5",
      "U+00B6", "U+00B7", "U+00B8", "U+00B9", "U+00BA", "U+00BB",
      "U+00BC", "U+00BD", "U+00BE", "U+00BF", "U+00D7", "U+00DF",
      "U+00E0", "U+00E1", "U+00E2", "U+00E3", "U+00E4", "U+00E5",
      "U+00E6", "U+00E7", "U+00E8", "U+00E9", "U+00EA", "U+00EB",
      "U+00EC", "U+00ED", "U+00EE", "U+00EF", "U+00F0", "U+00F1",
      "U+00F2", "U+00F3", "U+00F4", "U+00F5", "U+00F6", "U+00F7",
      "U+00F8", "U+00F9", "U+00FA", "U+00FB", "U+00FC", "U+00FD",
      "U+00FE", "U+00FF",
      "U+0307", "U+1680",
      "U+2000", "U+2001", "U+2002", "U+2003", "U+2004", "U+2005", "U+2006",
      "U+2007", "U+2008", "U+2009", "U+200A", "U+200B", "U+2028", "U+2029",
      "U+202F", "U+205F", "U+3000", "U+FEFF" }

\* The lower case of one character, as a sequence of characters.
LowerChar(ch) ==
    CASE \E i \in DOMAIN UpperChars : UpperChars[i] = ch
            -> <<LowerChars[CHOOSE i \in DOMAIN UpperChars : UpperChars[i] = ch]>>
      [] ch = "U+0130" -> <<"i", "U+0307">>
      [] ch \in Uncased -> <<ch>>

RECURSIVE toLowerCase(_)
toLowerCase(s) ==
    IF s = << >> THEN << >> ELSE LowerChar(Head(s)) \o toLowerCase(Tail(s))

RECURSIVE StartsWithAt(_, _, _)
\* sub occurs in s at position i (1-based), compared character by character.
StartsWithAt(s, sub, i) ==
    IF sub = << >> THEN TRUE
    ELSE IF i > Len(s) THEN FALSE
    ELSE s[i] = Head(sub) /\ StartsWithAt(s, Tail(sub), i + 1)

RECURSIVE IncludesFrom(_, _, _)
IncludesFrom(s, sub, i) ==
    IF i + Len(sub) - 1 > Len(s) THEN FALSE
    ELSE StartsWithAt(s, sub, i) \/ IncludesFrom(s, sub, i + 1)

includes(s, sub) == IncludesFrom(s, sub, 1)

S_codex == <<"c","o","d","e","x">>
S_claude == <<"c","l","a","u","d","e">>
S_anthropic == <<"a","n","t","h","r","o","p","i","c">>

(***************************************************************************)
(* Pack selection by model.  A model descriptor is a record [defined, id,  *)
(* provider]: defined is FALSE for an undefined model, and a field the     *)
(* descriptor lacks is NoStr.                                              *)
(***************************************************************************)
\* An absent string: the one-element sequence that is no character sequence.
NoStr == <<Undefined>>

NoModel == [defined |-> FALSE, id |-> NoStr, provider |-> NoStr]
Model(id, provider) == [defined |-> TRUE, id |-> id, provider |-> provider]

\* The ?? "" of model.id ?? "" and model.provider ?? "".
OrEmpty(field) == IF field = NoStr THEN << >> ELSE field

\* A slip that tests the Claude rule before the Codex rule.
packForModel_ClaudeFirst(model) ==
    IF ~model.defined THEN "peon"
    ELSE LET id == toLowerCase(OrEmpty(model.id))
             provider == toLowerCase(OrEmpty(model.provider))
         IN  IF includes(id, S_claude) \/ includes(provider, S_anthropic)
             THEN "peon"
             ELSE IF includes(id, S_codex) \/ includes(provider, S_codex)
             THEN "peasant"
             ELSE "peon"

packForModel(model) ==
    IF ~model.defined THEN "peon"
    ELSE LET id == toLowerCase(OrEmpty(model.id))
             provider == toLowerCase(OrEmpty(model.provider))
         IN  IF includes(id, S_codex) \/ includes(provider, S_codex)
             THEN "peasant"
             ELSE IF includes(id, S_claude) \/ includes(provider, S_anthropic)
             THEN "peon"
             ELSE "peon"


(***************************************************************************)
(* parseFloat (ECMAScript): skip leading white space, then take the        *)
(* longest prefix that is a decimal literal                                *)
(*     [+-] ( Infinity | digits [. [digits]] [exp] | . digits [exp] )      *)
(* and ignore what follows; NaN when there is no such prefix.  A finite    *)
(* result is the exact decimal n/d, d a power of ten, in lowest decimal    *)
(* form (within the modelled inputs the double nearest to it compares      *)
(* with 0 and 1 as the decimal does; -0 is 0).                             *)
(***************************************************************************)
DigitChars == <<"0","1","2","3","4","5","6","7","8","9">>
IsDigit(ch) == \E i \in 1..10 : DigitChars[i] = ch
DigitVal(ch) == (CHOOSE i \in 1..10 : DigitChars[i] = ch) - 1
\* The characters parseFloat skips at the start (StrWhiteSpaceChar): the
\* WhiteSpace and LineTerminator code points of ECMAScript.
WhiteSpace ==
    { "\t", "\n", "U+000B", "\f", "\r", " ", "U+00A0", "U+1680",
      "U+2000", "U+2001", "U+2002", "U+2003", "U+2004", "U+2005", "U+2006",
      "U+2007", "U+2008", "U+2009", "U+200A", "U+2028", "U+2029", "U+202F",
      "U+205F", "U+3000", "U+FEFF" }

NaN == [kind |-> "nan", neg |-> FALSE, n |-> 0, d |-> 1]
Infinity(neg) == [kind |-> "inf", neg |-> neg, n |-> 0, d |-> 1]

RECURSIVE Pow10(_)
Pow10(k) == IF k <= 0 THEN 1 ELSE 10 * Pow10(k - 1)

RECURSIVE Decimal(_, _)
\* n/d with trailing zeros of the fraction removed.
Decimal(n, d) ==
    IF d > 1 /\ n % 10 = 0
    THEN Decimal(n \div 10, d \div 10)
    ELSE [kind |-> "num", neg |-> FALSE, n |-> n, d |-> d]

RECURSIVE SkipWhiteSpace(_, _)
SkipWhiteSpace(s, i) ==
    IF i <= Len(s) /\ s[i] \in WhiteSpace THEN SkipWhiteSpace(s, i + 1) ELSE i

RECURSIVE DigitsEnd(_, _)
\* The position after the run of digits that starts at i.
DigitsEnd(s, i) ==
    IF i <= Len(s) /\ IsDigit(s[i]) THEN DigitsEnd(s, i + 1) ELSE i

RECURSIVE DigitsValue(_, _, _, _)
\* The number written by the digits s[i..j-1], after the digits acc.
DigitsValue(s, i, j, acc) ==
    IF i >= j THEN acc ELSE DigitsValue(s, i + 1, j, 10 * acc + DigitVal(s[i]))

S_Infinity == <<"I","n","f","i","n","i","t","y">>

\* The finite result: the digits scaled by ten to the minus scale, signed.
Scaled(neg, digits, scale) ==
    IF scale <= 0
    THEN Decimal((IF neg THEN -1 ELSE 1) * digits * Pow10(-scale), 1)
    ELSE Decimal((IF neg THEN -1 ELSE 1) * digits, Pow10(scale))

\* The exponent's digits run from e2 to expEnd; none means no exponent.
ParseExpDigits(s, neg, digits, fracLen, expNeg, e2, expEnd) ==
    IF expEnd > e2
    THEN Scaled(neg, digits,
                fracLen - (IF expNeg THEN -1 ELSE 1) * DigitsValue(s, e2, expEnd, 0))
    ELSE Scaled(neg, digits, fracLen)

\* The exponent's digits start at e2, after its sign.
ParseExpSign(s, neg, digits, fracLen, expNeg, e2) ==
    ParseExpDigits(s, neg, digits, fracLen, expNeg, e2, DigitsEnd(s, e2))

\* The mantissa ended before mantEnd, where an exponent may start.
ParseExponent(s, neg, digits, fracLen, mantEnd) ==
    IF mantEnd <= Len(s) /\ s[mantEnd] \in {"e", "E"}
    THEN ParseExpSign(s, neg, digits, fracLen,
                      mantEnd + 1 <= Len(s) /\ s[mantEnd + 1] = "-",
                      IF mantEnd + 1 <= Len(s) /\ s[mantEnd + 1] \in {"+", "-"}
                      THEN mantEnd + 2 ELSE mantEnd + 1)
    ELSE Scaled(neg, digits, fracLen)

\* The fraction's digits run from intEnd + 1 to fracEnd.
ParseFraction(s, neg, p1, intEnd, fracEnd) ==
    IF intEnd = p1 /\ fracEnd = intEnd + 1 THEN NaN
    ELSE ParseExponent(s, neg,
                       DigitsValue(s, intEnd + 1, fracEnd,
                                   DigitsValue(s, p1, intEnd, 0)),
                       fracEnd - (intEnd + 1), fracEnd)

\* The integer digits run from p1 to intEnd.
ParseMantissa(s, neg, p1, intEnd) ==
    IF intEnd <= Len(s) /\ s[intEnd] = "."
    THEN ParseFraction(s, neg, p1, intEnd, DigitsEnd(s, intEnd + 1))
    ELSE IF intEnd = p1 THEN NaN
    ELSE ParseExponent(s, neg, DigitsValue(s, p1, intEnd, 0), 0, intEnd)

\* The literal starts at p1, after the sign.
ParseUnsigned(s, neg, p1) ==
    IF StartsWithAt(s, S_Infinity, p1) THEN Infinity(neg)
    ELSE ParseMantissa(s, neg, p1, DigitsEnd(s, p1))

\* The sign, if any, is at p0, after the white space.
ParseSigned(s, p0) ==
    ParseUnsigned(s, p0 <= Len(s) /\ s[p0] = "-",
                  IF p0 <= Len(s) /\ s[p0] \in {"+", "-"} THEN p0 + 1 ELSE p0)

parseFloat(s) == ParseSigned(s, SkipWhiteSpace(s, 1))

isNaN(v) == v.kind = "nan"
\* v >= 0 and v <= 1 of JavaScript numbers (every comparison with NaN is false).
GeqZero(v) ==
    \/ v.kind = "num" /\ v.n >= 0
    \/ v.kind = "inf" /\ ~v.neg
LeqOne(v) ==
    \/ v.kind = "num" /\ v.n <= v.d
    \/ v.kind = "inf" /\ v.neg


(***************************************************************************)
(* The state.                                                              *)
(***************************************************************************)
VARIABLES
    \* the module's state (src/index.ts, lines 50-54)
    muted, volume, currentPack, lastPlayed, promptTimestamps,
    \* the platform and the file system: IS_MACOS, the manifest file of each
    \* pack, and the sound files present, as <<pack, file>>
    isMacos, disk, assets,
    \* the clock: Date.now() in ms
    now,
    \* the limits of the model: the step of one Tick, the last instant
    \* followed, the most entries of promptTimestamps, the most pending clears
    limits,
    \* the host's UI: the text on status channel "wc3", the due times of the
    \* pending setTimeout callbacks, and the /wc3-volume command waiting for
    \* the answer to its ctx.ui.input
    status, timers, prompt,
    \* what the last step gave out, as its caller or the host sees it
    out,
    \* history: per category the file pickSound last returned since the last
    \* pack switch and the file last handed to afplay, the instant the
    \* displayed status's own clear is due, and the recent agent_start instants
    hist

vars ==
    <<muted, volume, currentPack, lastPlayed, promptTimestamps,
      isMacos, disk, assets, now, limits,
      status, timers, prompt, out, hist>>

envVars == <<isMacos, disk, assets, limits>>

\* The module's mutable state as one value, threaded through its functions.
Mod ==
    [muted |-> muted, volume |-> volume, currentPack |-> currentPack,
     lastPlayed |-> lastPlayed, promptTimestamps |-> promptTimestamps]

\* let lastPlayed: Record<string, string> = {}
EmptyRecord == [c \in {} |-> Undefined]

\* Object property assignment obj[key] = value.
Assign(obj, key, value) ==
    [k \in DOMAIN obj \cup {key} |-> IF k = key THEN value ELSE obj[k]]

\* Object property read obj[key], undefined for a key the object lacks.
Get(obj, key) == IF key \in DOMAIN obj THEN obj[key] ELSE Undefined

(***************************************************************************)
(* Manifests.  loadManifest returns null or whatever JSON.parse made of    *)
(* the file: JSON null, or an object that may lack display_name, may lack  *)
(* categories, and whose categories may lack a category or its sounds.     *)
(***************************************************************************)
ManifestNull ==
    [isNull |-> TRUE, display_name |-> Undefined, hasCategories |-> FALSE,
     categories |-> EmptyRecord]

ManifestObject(display_name, hasCategories, categories) ==
    [isNull |-> FALSE, display_name |-> display_name,
     hasCategories |-> hasCategories, categories |-> categories]

SoundEntry(file, line) == [file |-> file, line |-> line]
NoSound == SoundEntry(Undefined, Undefined)

\* A category's value in the categories map, with or without its sounds.
CategorySounds(sounds) == [hasSounds |-> TRUE, sounds |-> sounds]
CategoryNoSounds == [hasSounds |-> FALSE, sounds |-> << >>]

FileMissing == [kind |-> "missing", value |-> ManifestNull]
FileMalformed == [kind |-> "malformed", value |-> ManifestNull]
FileJson(value) == [kind |-> "json", value |-> value]

loadManifest(packName) ==
    IF disk[packName].kind = "json"
    THEN disk[packName].value
    ELSE ManifestNull

(***************************************************************************)
(* syncPackToModel                                                         *)
(***************************************************************************)
\* A slip that switches the pack and keeps lastPlayed.
syncPackToModel_KeepLast(m, model) ==
    LET newPack == packForModel(model)
    IN  IF newPack # m.currentPack
        THEN [m EXCEPT !.currentPack = newPack]
        ELSE m

\* A slip that never leaves the pack it is in.
syncPackToModel_Stuck(m, model) == m

\* A slip that empties lastPlayed whether or not the pack changes.
syncPackToModel_AlwaysClear(m, model) ==
    [m EXCEPT !.currentPack = packForModel(model), !.lastPlayed = EmptyRecord]

syncPackToModel(m, model) ==
    LET newPack == packForModel(model)
    IN  IF newPack # m.currentPack
        THEN [m EXCEPT !.currentPack = newPack, !.lastPlayed = EmptyRecord]
        ELSE m

(***************************************************************************)
(* pickSound.  rnd stands for Math.random() = rnd / RandGrid.  The result  *)
(* holds the module state after the call, whether the call threw a         *)
(* TypeError, and the entry returned (found) or null.                      *)
(***************************************************************************)
PickResult(m, threw, found, sound) ==
    [m |-> m, threw |-> threw, found |-> found, sound |-> sound]

\* Math.floor(Math.random() * length)
RandomIndex(rnd, length) == (rnd * length) \div RandGrid

\* sounds.filter((s) => s.file !== lastFile)
FilterNotFile(sounds, lastFile) ==
    SelectSeq(sounds, LAMBDA s : s.file # lastFile)

\* A slip that picks among all sounds, the last one included.
pickSound_NoFilter(m, category, rnd) ==
    LET manifest == loadManifest(m.currentPack)
        entry == manifest.categories[category]
        sounds == entry.sounds
        pick == sounds[RandomIndex(rnd, Len(sounds)) + 1]
    IN  IF manifest.isNull THEN PickResult(m, FALSE, FALSE, NoSound)
        ELSE IF ~manifest.hasCategories THEN PickResult(m, TRUE, FALSE, NoSound)
        ELSE IF category \notin DOMAIN manifest.categories
        THEN PickResult(m, FALSE, FALSE, NoSound)
        ELSE IF ~entry.hasSounds \/ Len(sounds) = 0
        THEN PickResult(m, FALSE, FALSE, NoSound)
        ELSE PickResult(
                 [m EXCEPT !.lastPlayed = Assign(m.lastPlayed, category, pick.file)],
                 FALSE, TRUE, pick)

\* A slip that filters a one-entry list too.
pickSound_FilterAlways(m, category, rnd) ==
    LET manifest == loadManifest(m.currentPack)
        entry == manifest.categories[category]
        sounds == entry.sounds
        lastFile == Get(m.lastPlayed, category)
        candidates == FilterNotFile(sounds, lastFile)
        pick == candidates[RandomIndex(rnd, Len(candidates)) + 1]
    IN  IF manifest.isNull THEN PickResult(m, FALSE, FALSE, NoSound)
        ELSE IF ~manifest.hasCategories THEN PickResult(m, TRUE, FALSE, NoSound)
        ELSE IF category \notin DOMAIN manifest.categories
        THEN PickResult(m, FALSE, FALSE, NoSound)
        ELSE IF ~entry.hasSounds \/ Len(sounds) = 0
        THEN PickResult(m, FALSE, FALSE, NoSound)
        ELSE IF candidates = << >>
        THEN PickResult(m, TRUE, FALSE, NoSound)
        ELSE PickResult(
                 [m EXCEPT !.lastPlayed = Assign(m.lastPlayed, category, pick.file)],
                 FALSE, TRUE, pick)

\* A slip that does not store the file it picked.
pickSound_NoRecord(m, category, rnd) ==
    LET manifest == loadManifest(m.currentPack)
        entry == manifest.categories[category]
        sounds == entry.sounds
        lastFile == Get(m.lastPlayed, category)
        candidates ==
            IF Len(sounds) > 1 THEN FilterNotFile(sounds, lastFile) ELSE sounds
        pick == candidates[RandomIndex(rnd, Len(candidates)) + 1]
    IN  IF manifest.isNull THEN PickResult(m, FALSE, FALSE, NoSound)
        ELSE IF ~manifest.hasCategories THEN PickResult(m, TRUE, FALSE, NoSound)
        ELSE IF category \notin DOMAIN manifest.categories
        THEN PickResult(m, FALSE, FALSE, NoSound)
        ELSE IF ~entry.hasSounds \/ Len(sounds) = 0
        THEN PickResult(m, FALSE, FALSE, NoSound)
        ELSE IF candidates = << >>
        THEN PickResult(m, TRUE, FALSE, NoSound)
        ELSE PickResult(m, FALSE, TRUE, pick)

\* A slip that takes an empty list for a list to pick from.
pickSound_NoEmptyCheck(m, category, rnd) ==
    LET manifest == loadManifest(m.currentPack)
        entry == manifest.categories[category]
        sounds == entry.sounds
        lastFile == Get(m.lastPlayed, category)
        candidates ==
            IF Len(sounds) > 1 THEN FilterNotFile(sounds, lastFile) ELSE sounds
        pick == candidates[RandomIndex(rnd, Len(candidates)) + 1]
    IN  IF manifest.isNull THEN PickResult(m, FALSE, FALSE, NoSound)
        ELSE IF ~manifest.hasCategories THEN PickResult(m, TRUE, FALSE, NoSound)
        ELSE IF category \notin DOMAIN manifest.categories
        THEN PickResult(m, FALSE, FALSE, NoSound)
        ELSE IF ~entry.hasSounds
        THEN PickResult(m, FALSE, FALSE, NoSound)
        ELSE IF candidates = << >>
        THEN PickResult(m, TRUE, FALSE, NoSound)
        ELSE PickResult(
                 [m EXCEPT !.lastPlayed = Assign(m.lastPlayed, category, pick.file)],
                 FALSE, TRUE, pick)

pickSound(m, category, rnd) ==
    LET manifest == loadManifest(m.currentPack)
        \* manifest.categories[category]?.sounds
        entry == manifest.categories[category]
        sounds == entry.sounds
        lastFile == Get(m.lastPlayed, category)
        candidates ==
            IF Len(sounds) > 1 THEN FilterNotFile(sounds, lastFile) ELSE sounds
        pick == candidates[RandomIndex(rnd, Len(candidates)) + 1]
    IN  IF manifest.isNull THEN PickResult(m, FALSE, FALSE, NoSound)
        \* manifest.categories is undefined: indexing it throws
        ELSE IF ~manifest.hasCategories THEN PickResult(m, TRUE, FALSE, NoSound)
        ELSE IF category \notin DOMAIN manifest.categories
        THEN PickResult(m, FALSE, FALSE, NoSound)
        ELSE IF ~entry.hasSounds \/ Len(sounds) = 0
        THEN PickResult(m, FALSE, FALSE, NoSound)
        \* candidates[0] is undefined: pick.file throws
        ELSE IF candidates = << >>
        THEN PickResult(m, TRUE, FALSE, NoSound)
        ELSE PickResult(
                 [m EXCEPT !.lastPlayed = Assign(m.lastPlayed, category, pick.file)],
                 FALSE, TRUE, pick)

(***************************************************************************)
(* playSound.  The result holds the module state after the call, whether   *)
(* it threw, its local sound (NoSound when pickSound was not called or     *)
(* returned null), the line returned or null, and the execFile calls made. *)
(***************************************************************************)
\* found: pickSound returned an entry, which is then sound.
PlayResult(m, threw, found, sound, ret, played) ==
    [m |-> m, threw |-> threw, found |-> found, sound |-> sound, ret |-> ret,
     played |-> played]

\* execFile("afplay", ["-v", String(volume), soundPath])
Afplay(pack, file, vol) == [pack |-> pack, file |-> file, volume |-> vol]

\* A slip that picks before it looks at muted.
playSound_PickFirst(m, category, rnd) ==
    LET p == pickSound(m, category, rnd)
    IN  IF p.threw THEN PlayResult(p.m, TRUE, FALSE, NoSound, Null, << >>)
        ELSE IF m.muted \/ ~isMacos
        THEN PlayResult(p.m, FALSE, p.found, p.sound, Null, << >>)
        ELSE IF ~p.found THEN PlayResult(p.m, FALSE, FALSE, NoSound, Null, << >>)
        ELSE IF p.sound.file = Undefined
        THEN PlayResult(p.m, TRUE, TRUE, p.sound, Null, << >>)
        ELSE IF <<p.m.currentPack, p.sound.file>> \notin assets
        THEN PlayResult(p.m, FALSE, TRUE, p.sound, Null, << >>)
        ELSE PlayResult(p.m, FALSE, TRUE, p.sound, p.sound.line,
                        <<Afplay(p.m.currentPack, p.sound.file, p.m.volume)>>)

\* A slip that leaves IS_MACOS out of the gate.
playSound_NoPlatformGate(m, category, rnd) ==
    IF m.muted THEN PlayResult(m, FALSE, FALSE, NoSound, Null, << >>)
    ELSE LET p == pickSound(m, category, rnd)
         IN  IF p.threw THEN PlayResult(p.m, TRUE, FALSE, NoSound, Null, << >>)
             ELSE IF ~p.found THEN PlayResult(p.m, FALSE, FALSE, NoSound, Null, << >>)
             ELSE IF p.sound.file = Undefined
             THEN PlayResult(p.m, TRUE, TRUE, p.sound, Null, << >>)
             ELSE IF <<p.m.currentPack, p.sound.file>> \notin assets
             THEN PlayResult(p.m, FALSE, TRUE, p.sound, Null, << >>)
             ELSE PlayResult(p.m, FALSE, TRUE, p.sound, p.sound.line,
                             <<Afplay(p.m.currentPack, p.sound.file, p.m.volume)>>)

playSound(m, category, rnd) ==
    IF m.muted \/ ~isMacos THEN PlayResult(m, FALSE, FALSE, NoSound, Null, << >>)
    ELSE LET p == pickSound(m, category, rnd)
         IN  IF p.threw THEN PlayResult(p.m, TRUE, FALSE, NoSound, Null, << >>)
             ELSE IF ~p.found THEN PlayResult(p.m, FALSE, FALSE, NoSound, Null, << >>)
             \* path.join(..., sound.file) throws on a file that is no string
             ELSE IF p.sound.file = Undefined
             THEN PlayResult(p.m, TRUE, TRUE, p.sound, Null, << >>)
             \* fs.existsSync(soundPath)
             ELSE IF <<p.m.currentPack, p.sound.file>> \notin assets
             THEN PlayResult(p.m, FALSE, TRUE, p.sound, Null, << >>)
             ELSE PlayResult(p.m, FALSE, TRUE, p.sound, p.sound.line,
                             <<Afplay(p.m.currentPack, p.sound.file, p.m.volume)>>)

(***************************************************************************)
(* checkAnnoyed, at Date.now() = t.                                        *)
(***************************************************************************)
AnnoyedResult(m, ret) == [m |-> m, ret |-> ret]

\* A slip that keeps a timestamp exactly ANNOYED_WINDOW_MS old.
checkAnnoyed_Inclusive(m, t) ==
    LET kept == SelectSeq(m.promptTimestamps, LAMBDA x : t - x <= ANNOYED_WINDOW_MS)
        stamps == Append(kept, t)
    IN  AnnoyedResult([m EXCEPT !.promptTimestamps = stamps],
                      Len(stamps) >= ANNOYED_THRESHOLD)

\* A slip that counts before it appends.
checkAnnoyed_CountBefore(m, t) ==
    LET kept == SelectSeq(m.promptTimestamps, LAMBDA x : t - x < ANNOYED_WINDOW_MS)
        stamps == Append(kept, t)
    IN  AnnoyedResult([m EXCEPT !.promptTimestamps = stamps],
                      Len(kept) >= ANNOYED_THRESHOLD)

checkAnnoyed(m, t) ==
    LET kept == SelectSeq(m.promptTimestamps, LAMBDA x : t - x < ANNOYED_WINDOW_MS)
        stamps == Append(kept, t)
    IN  AnnoyedResult([m EXCEPT !.promptTimestamps = stamps],
                      Len(stamps) >= ANNOYED_THRESHOLD)

\* packEmoji, by the emoji's name.
packEmoji(pack) == IF pack = "peasant" THEN "castle" ELSE "axe"


(***************************************************************************)
(* The /wc3-volume checks on the parsed number.                            *)
(***************************************************************************)
\* !isNaN(v) && v >= 0 && v <= 1  (line 224)
AcceptsInline(v) == ~isNaN(v) /\ GeqZero(v) /\ LeqOne(v)

\* v < 0 and v > 1 of JavaScript numbers.
LtZero(v) ==
    \/ v.kind = "num" /\ v.n < 0
    \/ v.kind = "inf" /\ v.neg
GtOne(v) ==
    \/ v.kind = "num" /\ v.n > v.d
    \/ v.kind = "inf" /\ ~v.neg

\* A slip that lets a negative answer through.
RejectsAnswer_NoLowerBound(v) == isNaN(v) \/ GtOne(v)

\* isNaN(v) || v < 0 || v > 1  (line 236)
RejectsAnswer(v) == isNaN(v) \/ LtZero(v) \/ GtOne(v)

(***************************************************************************)
(* The host's UI and what an operation shows of itself.                    *)
(***************************************************************************)
NoStatus == [shown |-> FALSE, icon |-> Undefined, kind |-> Undefined, text |-> Undefined]
\* `${icon} "${line}"` and `${packEmoji()} Switched to ${name}`
LineStatus(icon, line) ==
    [shown |-> TRUE, icon |-> icon, kind |-> "line", text |-> line]
SwitchedStatus(icon, name) ==
    [shown |-> TRUE, icon |-> icon, kind |-> "switched", text |-> name]

Notify(msg, level) == [msg |-> msg, level |-> level]

\* The /wc3-volume command at its await: whether it is there, whether it
\* came with an inline argument (one that failed the check of line 224), and
\* the volume at the time.
NoPrompt == [open |-> FALSE, rejected |-> FALSE, volume0 |-> NaN]

\* What a step gives out: the switch site it went through ("model_select"
\* or "syncPackToModel") and the descriptor it had there, the category it asked
\* playSound or pickSound for, the boolean checkAnnoyed computed and the
\* timestamps it removed, the pack a call of packForModel resolved, the
\* file of the sound picked and the file the previous pickSound call for the
\* category returned, the line or null returned, the execFile calls, the
\* notifications, the status texts set, whether it ended in a TypeError, and
\* whether a timer callback removed a status text whose own clear was not
\* yet due.
NoOut ==
    [sync |-> Null, model |-> NoModel, cat |-> Null, flag |-> FALSE,
     dropped |-> << >>, pack |-> Null, file |-> Null, prev |-> Undefined, ret |-> Null,
     played |-> << >>, notes |-> << >>, sets |-> << >>, threw |-> FALSE,
     cut |-> FALSE]

\* The entries of the sequence before that the sequence after lacks.
Dropped(before, after) ==
    SelectSeq(before, LAMBDA x : \A i \in DOMAIN after : after[i] # x)

NoHist ==
    [picked |-> EmptyRecord, dispatched |-> EmptyRecord,
     shownUntil |-> 0, starts |-> << >>]

\* What a step through a switch site with the descriptor model gives out.
SyncOut(site, model) == [NoOut EXCEPT !.sync = site, !.model = model]

\* The history after a step that took the module from pack `before` to the
\* state m and whose playSound, if any, gave r.
HistSwitch(h, before, m) ==
    IF m.currentPack # before THEN [h EXCEPT !.picked = EmptyRecord] ELSE h

HistPick(h, category, found, sound) ==
    IF ~found THEN h
    ELSE [h EXCEPT !.picked = Assign(h.picked, category, sound.file)]

HistPlay(h, category, r) ==
    LET h1 == HistPick(h, category, r.found, r.sound)
    IN  IF r.played = << >> THEN h1
        ELSE [h1 EXCEPT !.dispatched =
                 Assign(h1.dispatched, category,
                        [pack |-> r.played[1].pack, file |-> r.played[1].file])]

SetMod(m) ==
    /\ muted' = m.muted
    /\ volume' = m.volume
    /\ currentPack' = m.currentPack
    /\ lastPlayed' = m.lastPlayed
    /\ promptTimestamps' = m.promptTimestamps

\* Modelling bound on a step that shows a status: its clear must fall within
\* the horizon, and the pending clears are limited.
CanShow ==
    /\ now + CLEAR_COMPLETE_MS <= limits.horizon
    /\ BagCardinality(timers) < limits.maxTimers

\* if (line): a line is falsy when it is null, undefined or the empty string.
Truthy(line) == line \notin {Null, Undefined, ""}

\* A slip that sets the status text and schedules no clear.
PlayAndShow_NoTimer(o, h, m, category, rnd, icon, delay) ==
    LET r == playSound(m, category, rnd)
        shows == ~r.threw /\ Truthy(r.ret)
        text == LineStatus(icon, r.ret)
    IN  /\ shows => CanShow
        /\ SetMod(r.m)
        /\ status' = IF shows THEN text ELSE status
        /\ timers' = timers
        /\ out' = [o EXCEPT !.cat = category, !.file = r.sound.file,
                            !.ret = r.ret, !.played = r.played,
                            !.sets = IF shows THEN <<text>> ELSE << >>,
                            !.threw = r.threw]
        /\ hist' = LET h1 == HistPlay(h, category, r)
                   IN  IF shows THEN [h1 EXCEPT !.shownUntil = now + delay] ELSE h1

\* const line = playSound(category);
\* if (line) { ctx.ui.setStatus("wc3", ...); setTimeout(clear, delay); }
PlayAndShow(o, h, m, category, rnd, icon, delay) ==
    LET r == playSound(m, category, rnd)
        shows == ~r.threw /\ Truthy(r.ret)
        text == LineStatus(icon, r.ret)
    IN  /\ shows => CanShow
        /\ SetMod(r.m)
        /\ status' = IF shows THEN text ELSE status
        /\ timers' = IF shows THEN timers (+) SetToBag({now + delay}) ELSE timers
        /\ out' = [o EXCEPT !.cat = category, !.file = r.sound.file,
                            !.ret = r.ret, !.played = r.played,
                            !.sets = IF shows THEN <<text>> ELSE << >>,
                            !.threw = r.threw]
        /\ hist' = LET h1 == HistPlay(h, category, r)
                   IN  IF shows THEN [h1 EXCEPT !.shownUntil = now + delay] ELSE h1

(***************************************************************************)
(* The event handlers.                                                     *)
(***************************************************************************)
\* A slip of the model_select handler that switches the pack and keeps
\* lastPlayed.
ModelSelect_KeepLast(model) ==
    /\ LET newPack == packForModel(model)
           manifest == loadManifest(newPack)
           name == IF manifest.isNull \/ manifest.display_name = Undefined
                   THEN newPack ELSE manifest.display_name
           text == SwitchedStatus(packEmoji(newPack), name)
       IN  IF newPack # currentPack
           THEN /\ CanShow
                /\ currentPack' = newPack
                /\ lastPlayed' = lastPlayed
                /\ status' = text
                /\ timers' = timers (+) SetToBag({now + CLEAR_MS})
                /\ out' = [SyncOut("model_select", model) EXCEPT !.sets = <<text>>]
                /\ hist' = [hist EXCEPT !.picked = EmptyRecord,
                                        !.shownUntil = now + CLEAR_MS]
           ELSE /\ UNCHANGED <<currentPack, lastPlayed, status, timers, hist>>
                /\ out' = SyncOut("model_select", model)
    /\ UNCHANGED <<muted, volume, promptTimestamps, now, prompt, envVars>>

\* pi.on("model_select")
ModelSelect(model) ==
    /\ LET newPack == packForModel(model)
           manifest == loadManifest(newPack)
           \* manifest?.display_name ?? currentPack
           name == IF manifest.isNull \/ manifest.display_name = Undefined
                   THEN newPack ELSE manifest.display_name
           text == SwitchedStatus(packEmoji(newPack), name)
       IN  IF newPack # currentPack
           THEN /\ CanShow
                /\ currentPack' = newPack
                /\ lastPlayed' = EmptyRecord
                /\ status' = text
                /\ timers' = timers (+) SetToBag({now + CLEAR_MS})
                /\ out' = [SyncOut("model_select", model) EXCEPT !.sets = <<text>>]
                /\ hist' = [hist EXCEPT !.picked = EmptyRecord,
                                        !.shownUntil = now + CLEAR_MS]
           ELSE /\ UNCHANGED <<currentPack, lastPlayed, status, timers, hist>>
                /\ out' = SyncOut("model_select", model)
    /\ UNCHANGED <<muted, volume, promptTimestamps, now, prompt, envVars>>

\* pi.on("session_start")
SessionStart(model, rnd) ==
    /\ LET m == syncPackToModel(Mod, model)
       IN  PlayAndShow(SyncOut("syncPackToModel", model),
                       HistSwitch(hist, currentPack, m),
                       m, "greeting", rnd, packEmoji(m.currentPack), CLEAR_MS)
    /\ UNCHANGED <<now, prompt, envVars>>

\* pi.on("agent_start")
AgentStart(model, rnd) ==
    /\ Len(checkAnnoyed(Mod, now).m.promptTimestamps) <= limits.maxStamps
    /\ LET m == syncPackToModel(Mod, model)
           a == checkAnnoyed(m, now)
           h == [HistSwitch(hist, currentPack, m)
                     EXCEPT !.starts = Append(hist.starts, now)]
           o == [SyncOut("syncPackToModel", model) EXCEPT !.flag = a.ret,
                              !.dropped = Dropped(promptTimestamps,
                                                  a.m.promptTimestamps)]
       IN  IF a.ret
           THEN PlayAndShow(o, h, a.m, "annoyed", rnd, "annoyed", CLEAR_MS)
           ELSE PlayAndShow(o, h, a.m, "acknowledge", rnd, "swords", CLEAR_MS)
    /\ UNCHANGED <<now, prompt, envVars>>

\* pi.on("agent_end")
AgentEnd(rnd) ==
    /\ PlayAndShow(NoOut, hist, Mod, "complete", rnd, "check",
                   CLEAR_COMPLETE_MS)
    /\ UNCHANGED <<now, prompt, envVars>>

\* pi.on("tool_result")
ToolResult(isError, rnd) ==
    /\ IF isError
       THEN PlayAndShow(NoOut, hist, Mod, "error", rnd, "skull", CLEAR_MS)
       ELSE /\ out' = NoOut
            /\ UNCHANGED <<muted, volume, currentPack, lastPlayed,
                           promptTimestamps, status, timers, hist>>
    /\ UNCHANGED <<now, prompt, envVars>>

\* The handlers of /wc3-mute and of the ctrl+shift+m shortcut.
ToggleMute ==
    /\ muted' = ~muted
    /\ out' = [NoOut EXCEPT
                 !.notes = <<Notify(IF ~muted THEN "muted" ELSE "unmuted", "info")>>]
    /\ UNCHANGED <<volume, currentPack, lastPlayed, promptTimestamps, now,
                   status, timers, prompt, hist, envVars>>

MuteCommand == ToggleMute
MuteShortcut == ToggleMute

\* volume = v; ctx.ui.notify(`Volume set to ...`, "info"); playSound("greeting");
SetVolume(v, rnd) ==
    LET r == playSound([Mod EXCEPT !.volume = v], "greeting", rnd)
    IN  /\ SetMod(r.m)
        /\ out' = [NoOut EXCEPT !.notes = <<Notify("volume-set", "info")>>,
                            !.cat = "greeting", !.file = r.sound.file,
                            !.ret = r.ret, !.played = r.played,
                            !.threw = r.threw]
        /\ hist' = HistPlay(hist, "greeting", r)

\* /wc3-volume up to its return or its await of ctx.ui.input.  args is the
\* inline argument, the empty string when there is none.
VolumeCommand(args, rnd) ==
    /\ ~prompt.open
    /\ LET v == parseFloat(args)
       IN  IF args # << >> /\ AcceptsInline(v)
           THEN /\ SetVolume(v, rnd)
                /\ prompt' = prompt
           ELSE /\ prompt' = [open |-> TRUE, rejected |-> args # << >>,
                               volume0 |-> volume]
                /\ out' = NoOut
                /\ UNCHANGED <<muted, volume, currentPack, lastPlayed,
                               promptTimestamps, hist>>
    /\ UNCHANGED <<now, status, timers, envVars>>

\* /wc3-volume from the answer to its prompt on: input is what the user
\* typed, NoStr when the prompt was dismissed (undefined).
VolumeAnswer(input, rnd) ==
    /\ prompt.open
    /\ prompt' = NoPrompt
    /\ LET v == parseFloat(input)
       IN  IF input = NoStr
           THEN /\ out' = NoOut
                /\ UNCHANGED <<muted, volume, currentPack, lastPlayed,
                               promptTimestamps, hist>>
           ELSE IF RejectsAnswer(v)
           THEN /\ out' = [NoOut EXCEPT !.notes = <<Notify("invalid-volume", "error")>>]
                /\ UNCHANGED <<muted, volume, currentPack, lastPlayed,
                               promptTimestamps, hist>>
           ELSE SetVolume(v, rnd)
    /\ UNCHANGED <<now, status, timers, envVars>>

\* A slip, in place of the callback, that leaves the text of a later event
\* alone.
TimerFire_OwnOnly ==
    /\ \E due \in BagToSet(timers) :
          /\ due <= now
          /\ timers' = timers (-) SetToBag({due})
    /\ status' = IF hist.shownUntil > now THEN status ELSE NoStatus
    /\ out' = NoOut
    /\ hist' = IF hist.shownUntil > now THEN hist
               ELSE [hist EXCEPT !.shownUntil = 0]
    /\ UNCHANGED <<muted, volume, currentPack, lastPlayed, promptTimestamps,
                   now, prompt, envVars>>

\* A callback of setTimeout(() => ctx.ui.setStatus("wc3", undefined), delay).
TimerFire ==
    /\ \E due \in BagToSet(timers) :
          /\ due <= now
          /\ timers' = timers (-) SetToBag({due})
    /\ status' = NoStatus
    /\ out' = [NoOut EXCEPT !.cut = status.shown /\ hist.shownUntil > now]
    /\ hist' = [hist EXCEPT !.shownUntil = 0]
    /\ UNCHANGED <<muted, volume, currentPack, lastPlayed, promptTimestamps,
                   now, prompt, envVars>>

\* Time passes; a callback that is due runs before the clock moves on.
Tick ==
    /\ now + limits.tickMs <= limits.horizon
    /\ \A due \in BagToSet(timers) : due > now
    /\ now' = now + limits.tickMs
    /\ out' = NoOut
    /\ hist' = [hist EXCEPT !.starts =
                   SelectSeq(hist.starts,
                             LAMBDA t : now + limits.tickMs - t <= ANNOYED_WINDOW_MS)]
    /\ UNCHANGED <<muted, volume, currentPack, lastPlayed, promptTimestamps,
                   status, timers, prompt, envVars>>


(***************************************************************************)
(* Calls of the module's functions one at a time, as a test of the         *)
(* function makes them.                                                    *)
(***************************************************************************)
CallPackForModel(model) ==
    /\ out' = [NoOut EXCEPT !.model = model, !.pack = packForModel(model)]
    /\ UNCHANGED <<muted, volume, currentPack, lastPlayed, promptTimestamps,
                   now, status, timers, prompt, hist, envVars>>

CallSyncPackToModel(model) ==
    /\ LET m == syncPackToModel(Mod, model)
       IN  /\ SetMod(m)
           /\ hist' = HistSwitch(hist, currentPack, m)
    /\ out' = SyncOut("syncPackToModel", model)
    /\ UNCHANGED <<now, status, timers, prompt, envVars>>

CallPickSound(category, rnd) ==
    /\ LET r == pickSound(Mod, category, rnd)
       IN  /\ SetMod(r.m)
           /\ out' = [NoOut EXCEPT !.cat = category,
                         !.file = r.sound.file, !.ret = r.sound.line,
                         !.prev = Get(hist.picked, category),
                         !.threw = r.threw]
           /\ hist' = HistPick(hist, category, r.found, r.sound)
    /\ UNCHANGED <<now, status, timers, prompt, envVars>>

CallPlaySound(category, rnd) ==
    /\ LET r == playSound(Mod, category, rnd)
       IN  /\ SetMod(r.m)
           /\ out' = [NoOut EXCEPT !.cat = category,
                         !.file = r.sound.file, !.ret = r.ret,
                         !.played = r.played, !.threw = r.threw]
           /\ hist' = HistPlay(hist, category, r)
    /\ UNCHANGED <<now, status, timers, prompt, envVars>>

CallCheckAnnoyed ==
    /\ Len(checkAnnoyed(Mod, now).m.promptTimestamps) <= limits.maxStamps
    /\ LET a == checkAnnoyed(Mod, now)
       IN  /\ SetMod(a.m)
           /\ out' = [NoOut EXCEPT !.flag = a.ret,
                         !.dropped = Dropped(promptTimestamps,
                                             a.m.promptTimestamps)]
    /\ UNCHANGED <<now, status, timers, prompt, hist, envVars>>

(***************************************************************************)
(* Inputs.                                                                 *)
(***************************************************************************)
RandomDraws == 0..(RandGrid - 1)
\* The least and the greatest draw, which reach the first and the last entry
\* of a list: every entry of the lists of the small packs.
EndDraws == {0, RandGrid - 1}

ModelIds ==
    { NoStr,
      <<>>,
      <<"c","l","a","u","d","e","-","3","-","o","p","u","s">>,
      <<"g","p","t","-","5","-","c","o","d","e","x">>,
      <<"G","P","T","-","5","-","C","o","d","e","x">>,
      <<"C","O","D","E","X">>,
      <<"c","l","a","u","d","e","-","c","o","d","e","x">>,
      <<"C","l","a","u","d","e","-","S","o","n","n","e","t">>,
      <<"g","p","t","-","4","o">>,
      <<"c","o","d","-","e","x">>,
      <<"a","n","t","h","r","o","p","i","c">>,
      <<"C","O","D","E","X","-","U+00C9">> }

ModelProviders ==
    { NoStr,
      <<>>,
      <<"a","n","t","h","r","o","p","i","c">>,
      <<"A","n","t","h","r","o","p","i","c">>,
      <<"o","p","e","n","a","i">>,
      <<"o","p","e","n","a","i","-","c","o","d","e","x">>,
      <<"O","p","e","n","A","I","-","C","o","d","e","x">>,
      <<"C","O","D","E","X">>,
      <<"g","o","o","g","l","e">>,
      <<"c","l","a","u","d","e">>,
      <<"c","o","d","e","x">>,
      \* capital I with dot above lowers to two characters
      <<"A","N","T","H","R","O","P","U+0130","C">> }

\* Every descriptor of the resolver's check: undefined, or any id with any provider.
AllModels ==
    {NoModel} \cup {Model(id, provider) : id \in ModelIds, provider \in ModelProviders}

\* The models the host's events carry: none, a Claude model, a Codex model.
EventModels ==
    { NoModel,
      Model(<<"c","l","a","u","d","e","-","3","-","o","p","u","s">>,
            <<"a","n","t","h","r","o","p","i","c">>),
      Model(<<"g","p","t","-","5","-","c","o","d","e","x">>, NoStr) }

\* The models of the events in the whole program's specification.
ProgramModels == EventModels \ {NoModel}

\* What the user types in the whole program's specification: as the inline
\* argument a number or nothing, as the answer a number or no number.
ProgramArgs ==
    { <<"0",".","3">>, << >> }
ProgramInputs ==
    { <<"0",".","3">>, <<"a","b","c">> }

\* What the user may type as the inline argument or into the prompt.
VolumeInputs ==
    { <<"0",".","5">>,
      <<"1",".","5">>,
      <<"-","0",".","1">>,
      <<"a","b","c">>,
      <<"0",".","3">>,
      <<"0">>,
      <<"1">>,
      <<"1",".","0">>,
      <<" ","0",".","7">>,
      <<"0",".","3","a","b","c">>,
      <<".","5">>,
      <<"5","e","-","1">>,
      <<"1","e","1">>,
      <<"-","0">>,
      <<"+","1">>,
      <<"1",".">>,
      <<>>,
      <<".">>,
      <<"I","n","f","i","n","i","t","y">>,
      <<"-","I","n","f","i","n","i","t","y">>,
      <<"N","a","N">>,
      <<"1",".","0","1">>,
      <<"0",".","2","5">>,
      <<"e","5">>,
      <<"-",".","5">>,
      <<"2">>,
      <<"\r","0",".","5">>,
      <<"\f","U+00A0","1">>,
      \* a zero width space, which is no white space
      <<"U+200B","0",".","5">> }

(***************************************************************************)
(* The file system and the platform the program finds itself on.           *)
(***************************************************************************)
FileNames == <<"f1.wav", "f2.wav", "f3.wav", "f4.wav", "f5.wav", "f6.wav">>
Lines == <<"Ready to work?", "Work, work.", "Okie dokie.", "Yes?", "Hmm?", "What?">>
SoundAt(i) == SoundEntry(FileNames[i], Lines[i])
\* The list of the first n sounds.
ListOf(n) == [i \in 1..n |-> SoundAt(i)]

\* A manifest as the packs ship it; permission has no sounds in it.
PeonManifest ==
    ManifestObject("Orc Peon", TRUE,
        [c \in Categories \ {"permission"} |->
            CASE c = "greeting" -> CategorySounds(ListOf(2))
              [] c = "acknowledge" -> CategorySounds(ListOf(MaxSounds))
              [] c = "complete" -> CategorySounds(ListOf(1))
              [] c = "error" -> CategorySounds(ListOf(1))
              [] c = "annoyed" -> CategorySounds(ListOf(2))])

\* A sparser manifest: an empty list, a category without sounds, categories
\* that are absent, no display_name.
PeasantManifest ==
    ManifestObject(Undefined, TRUE,
        [c \in {"greeting", "acknowledge", "complete", "error"} |->
            CASE c = "greeting" -> CategorySounds(ListOf(1))
              [] c = "acknowledge" -> CategorySounds(ListOf(2))
              [] c = "complete" -> CategorySounds(<< >>)
              [] c = "error" -> CategoryNoSounds])

\* A manifest whose lists repeat a file name.
RepeatingManifest ==
    ManifestObject("Repeats", TRUE,
        [c \in {"greeting", "acknowledge", "annoyed"} |->
            CASE c = "greeting" -> CategorySounds(<<SoundAt(1), SoundAt(1)>>)
              [] c = "acknowledge" ->
                     CategorySounds(<<SoundAt(1), SoundAt(2), SoundAt(1)>>)
              [] c = "annoyed" -> CategorySounds(ListOf(2))])

\* A JSON object without the categories map.
NoCategoriesManifest == ManifestObject("Empty", FALSE, EmptyRecord)

\* A manifest whose greeting entry lacks its file.
NoFileManifest ==
    ManifestObject("No file", TRUE,
        [c \in {"greeting"} |->
            CategorySounds(<<SoundEntry(Undefined, "Ready to work?")>>)])

AllAssets == Packs \X {FileNames[i] : i \in 1..Len(FileNames)}

World(mac, d, a) == [isMacos |-> mac, disk |-> d, assets |-> a]

ShippedDisk ==
    [p \in Packs |->
        IF p = "peon" THEN FileJson(PeonManifest) ELSE FileJson(PeasantManifest)]

\* macOS with both packs installed.
ShippedWorld == World(TRUE, ShippedDisk, AllAssets)

\* Every content of a manifest file that the model follows.
DiskFiles ==
    { FileMissing, FileMalformed, FileJson(ManifestNull),
      FileJson(NoCategoriesManifest), FileJson(NoFileManifest),
      FileJson(PeonManifest), FileJson(PeasantManifest),
      FileJson(RepeatingManifest) }

\* Two small packs: few categories have sounds, so that the whole program
\* can be followed through all its operations.
SmallPeonManifest ==
    ManifestObject("Orc Peon", TRUE,
        [c \in {"greeting", "acknowledge", "complete"} |->
            CASE c = "greeting" -> CategorySounds(ListOf(2))
              [] c = "acknowledge" -> CategorySounds(ListOf(1))
              [] c = "complete" -> CategorySounds(<< >>)])

SmallPeasantManifest ==
    ManifestObject(Undefined, TRUE,
        [c \in {"greeting"} |-> CategorySounds(ListOf(1))])

SmallDisk ==
    [p \in Packs |->
        IF p = "peon" THEN FileJson(SmallPeonManifest)
        ELSE FileJson(SmallPeasantManifest)]

\* Two packs with the categories of agent_start: peasant has no annoyed
\* lines.
AgentDisk ==
    [p \in Packs |->
        IF p = "peon"
        THEN FileJson(ManifestObject("Orc Peon", TRUE,
                 [c \in {"acknowledge", "annoyed"} |->
                     IF c = "acknowledge" THEN CategorySounds(ListOf(2))
                     ELSE CategorySounds(<<SoundAt(3)>>)]))
        ELSE FileJson(ManifestObject("Human Peasant", TRUE,
                 [c \in {"acknowledge"} |-> CategorySounds(<<SoundAt(4)>>)]))]

\* Two packs for the status channel: peon has one sound for every category
\* an event asks for, the one for error with an empty line; peasant has a
\* greeting only.
StatusDisk ==
    [p \in Packs |->
        IF p = "peon"
        THEN FileJson(ManifestObject("Orc Peon", TRUE,
                 [c \in Categories \ {"permission"} |->
                     IF c = "error"
                     THEN CategorySounds(<<SoundEntry("f2.wav", "")>>)
                     ELSE CategorySounds(ListOf(1))]))
        ELSE FileJson(SmallPeasantManifest)]

\* The worlds of the whole program's specification.
ProgramWorlds ==
    { World(TRUE, SmallDisk, AllAssets),
      \* not macOS
      World(FALSE, SmallDisk, AllAssets) }

(***************************************************************************)
(* Specifications.                                                         *)
(***************************************************************************)
Limits(tickMs, horizon, maxStamps, maxTimers) ==
    [tickMs |-> tickMs, horizon |-> horizon, maxStamps |-> maxStamps,
     maxTimers |-> maxTimers]

\* The state after the module is loaded, in one of the given worlds.
InitIn(worlds, lim) ==
    /\ muted = FALSE
    /\ volume = Decimal(5, 10)
    /\ currentPack = "peon"
    /\ lastPlayed = EmptyRecord
    /\ promptTimestamps = << >>
    /\ \E w \in worlds :
          /\ isMacos = w.isMacos
          /\ disk = w.disk
          /\ assets = w.assets
    /\ now = 0
    /\ limits = lim
    /\ status = NoStatus
    /\ timers = EmptyBag
    /\ prompt = NoPrompt
    /\ out = NoOut
    /\ hist = NoHist

\* The whole program: the host's events, the commands, the timers, the clock.
Init ==
    InitIn(ProgramWorlds,
           Limits(5000, ProgramSec * 1000, ProgramStamps, ProgramTimers))

Next ==
    \/ \E model \in ProgramModels : ModelSelect(model)
    \/ \E model \in ProgramModels, rnd \in EndDraws : SessionStart(model, rnd)
    \/ \E model \in ProgramModels, rnd \in EndDraws : AgentStart(model, rnd)
    \/ \E rnd \in EndDraws : AgentEnd(rnd)
    \/ \E isError \in BOOLEAN, rnd \in EndDraws : ToolResult(isError, rnd)
    \/ MuteCommand
    \/ MuteShortcut
    \/ \E args \in ProgramArgs, rnd \in EndDraws :
          VolumeCommand(args, rnd)
    \/ \E input \in ProgramInputs \cup {NoStr}, rnd \in EndDraws :
          VolumeAnswer(input, rnd)
    \/ TimerFire
    \/ Tick

Spec == Init /\ [][Next]_vars

\* The resolver alone, applied to every descriptor.
NextResolver == \E model \in AllModels : CallPackForModel(model)

SpecResolver ==
    InitIn({ShippedWorld}, Limits(1000, 0, 0, 0)) /\ [][NextResolver]_vars

\* The selection engine alone, called category by category on every kind
\* of manifest file, with pack syncs in between.
PickWorlds ==
    { World(TRUE, [p \in Packs |-> IF p = "peon" THEN peon ELSE peasant],
            AllAssets) :
        peon \in DiskFiles, peasant \in {FileJson(PeasantManifest), FileMissing} }

NextPick ==
    \/ \E c \in Categories, rnd \in RandomDraws : CallPickSound(c, rnd)
    \/ \E model \in EventModels : CallSyncPackToModel(model)

SpecPick ==
    InitIn(PickWorlds, Limits(1000, 0, 0, 0)) /\ [][NextPick]_vars

\* The playback gate alone, with mute toggles, burst checks and pack syncs
\* in between, on macOS and elsewhere, with and without a sound file missing.
PlayWorlds ==
    { World(mac, SmallDisk, a) :
        mac \in BOOLEAN, a \in {AllAssets, AllAssets \ {<<"peon", "f2.wav">>}} }

NextPlay ==
    \/ \E c \in Categories, rnd \in RandomDraws : CallPlaySound(c, rnd)
    \/ \E model \in EventModels : CallSyncPackToModel(model)
    \/ CallCheckAnnoyed
    \/ MuteCommand

SpecPlay ==
    InitIn(PlayWorlds, Limits(1000, 0, 1, 0)) /\ [][NextPlay]_vars

\* The burst detector alone, called as the clock advances second by second.
NextBurst ==
    \/ CallCheckAnnoyed
    \/ Tick

SpecBurst ==
    InitIn({ShippedWorld}, Limits(1000, BurstSec * 1000, MaxStamps, 0))
        /\ [][NextBurst]_vars

\* The agent_start handler, with mute toggles, over a clock that steps by
\* 5 seconds.
NextAgent ==
    \/ \E model \in EventModels, rnd \in EndDraws : AgentStart(model, rnd)
    \/ MuteCommand
    \/ TimerFire
    \/ Tick

SpecAgent ==
    InitIn({World(TRUE, AgentDisk, AllAssets)},
           Limits(5000, AgentTicks * 5000, AgentStamps, AgentTimers))
        /\ [][NextAgent]_vars

\* The two pack-switch sites, with selections in between.
NextSwitch ==
    \/ \E model \in EventModels : ModelSelect(model)
    \/ \E model \in EventModels : CallSyncPackToModel(model)
    \/ \E c \in Categories, rnd \in RandomDraws : CallPickSound(c, rnd)
    \/ TimerFire
    \/ Tick

SpecSwitch ==
    InitIn({ShippedWorld, World(TRUE, SmallDisk, AllAssets)},
           Limits(5000, ProgramSec * 1000, 0, ProgramTimers))
        /\ [][NextSwitch]_vars

\* The /wc3-volume command on every modelled input, with session starts
\* and mute toggles in between.
NextVolume ==
    \/ \E args \in VolumeInputs, rnd \in EndDraws : VolumeCommand(args, rnd)
    \/ \E input \in VolumeInputs \cup {NoStr}, rnd \in EndDraws :
          VolumeAnswer(input, rnd)
    \/ \E model \in EventModels, rnd \in EndDraws : SessionStart(model, rnd)
    \/ MuteCommand

SpecVolume ==
    InitIn({World(TRUE, SmallDisk, AllAssets)},
           Limits(5000, ProgramSec * 1000, 0, ProgramTimers))
        /\ [][NextVolume]_vars

\* The event handlers and the selection engine on every kind of manifest
\* file for the peon pack: missing, malformed, JSON null, an object without
\* categories, lists that repeat a file name, an entry without its file,
\* and a well-formed manifest
\* that lacks categories and has an empty list.
FaultFiles ==
    { FileMissing, FileMalformed, FileJson(ManifestNull),
      FileJson(NoCategoriesManifest), FileJson(RepeatingManifest),
      FileJson(NoFileManifest), FileJson(SmallPeonManifest) }

FaultWorlds ==
    { World(TRUE, [p \in Packs |-> IF p = "peon" THEN peon
                                   ELSE FileJson(SmallPeasantManifest)],
            AllAssets) :
        peon \in FaultFiles }

NextFaults ==
    \/ \E model \in ProgramModels, rnd \in EndDraws : SessionStart(model, rnd)
    \/ \E model \in ProgramModels, rnd \in EndDraws : AgentStart(model, rnd)
    \/ \E rnd \in EndDraws : AgentEnd(rnd)
    \/ \E isError \in BOOLEAN, rnd \in EndDraws : ToolResult(isError, rnd)
    \/ \E c \in Categories, rnd \in EndDraws : CallPickSound(c, rnd)
    \/ TimerFire
    \/ Tick

SpecFaults ==
    InitIn(FaultWorlds,
           Limits(5000, ProgramSec * 1000, ProgramStamps, ProgramTimers))
        /\ [][NextFaults]_vars

\* The events and commands that play a greeting, with model changes and
\* mute toggles in between, with and without a sound file missing.
RepeatWorlds ==
    { World(TRUE, SmallDisk, a) :
        a \in {AllAssets, AllAssets \ {<<"peon", "f2.wav">>}} }

RepeatArgs == { <<"0",".","3">> }

NextRepeat ==
    \/ \E model \in ProgramModels : ModelSelect(model)
    \/ \E model \in ProgramModels, rnd \in EndDraws : SessionStart(model, rnd)
    \/ \E args \in RepeatArgs, rnd \in EndDraws : VolumeCommand(args, rnd)
    \/ MuteCommand
    \/ TimerFire
    \/ Tick

SpecRepeat ==
    InitIn(RepeatWorlds, Limits(5000, ProgramSec * 1000, 0, ProgramTimers))
        /\ [][NextRepeat]_vars

\* The status channel under overlapping displays: session_start and
\* agent_end events a second apart, with up to StatusTimers clears pending.
NextStatus ==
    \/ \E model \in ProgramModels, rnd \in EndDraws : SessionStart(model, rnd)
    \/ \E rnd \in EndDraws : AgentEnd(rnd)
    \/ TimerFire
    \/ Tick

SpecStatus ==
    InitIn({World(TRUE, StatusDisk, AllAssets)},
           Limits(1000, StatusSec * 1000, 0, StatusTimers))
        /\ [][NextStatus]_vars

\* Every event that sets a status text, under the host's event loop: a
\* timer callback that is due is run, and time passes.
NextClears ==
    \/ \E model \in ProgramModels : ModelSelect(model)
    \/ \E model \in ProgramModels, rnd \in EndDraws : SessionStart(model, rnd)
    \/ \E model \in ProgramModels, rnd \in EndDraws : AgentStart(model, rnd)
    \/ \E rnd \in EndDraws : AgentEnd(rnd)
    \/ \E isError \in BOOLEAN, rnd \in EndDraws : ToolResult(isError, rnd)
    \/ TimerFire
    \/ Tick

SpecClears ==
    /\ InitIn({World(TRUE, StatusDisk, AllAssets)},
              Limits(1000, StatusSec * 1000, 1, StatusTimers))
    /\ [][NextClears]_vars
    /\ WF_vars(TimerFire)
    /\ WF_vars(Tick)

(***************************************************************************)
(* What the claims are stated in.                                          *)
(***************************************************************************)
\* The sound list of a category as the pack's manifest file holds it, empty
\* when the file, the categories map, the category or its sounds are absent.
SoundsOf(pack, category) ==
    LET f == disk[pack]
    IN  IF /\ f.kind = "json"
           /\ ~f.value.isNull
           /\ f.value.hasCategories
           /\ category \in DOMAIN f.value.categories
           /\ f.value.categories[category].hasSounds
        THEN f.value.categories[category].sounds
        ELSE << >>

FilesOf(sounds) == {sounds[i].file : i \in DOMAIN sounds}

\* "codex" is written in s from position i on, in either letter case.
CodexAt(s, i) ==
    /\ i + 4 <= Len(s)
    /\ s[i] \in {"c", "C"}
    /\ s[i + 1] \in {"o", "O"}
    /\ s[i + 2] \in {"d", "D"}
    /\ s[i + 3] \in {"e", "E"}
    /\ s[i + 4] \in {"x", "X"}

MentionsCodex(field) ==
    field # NoStr /\ \E i \in 1..Len(field) : CodexAt(field, i)

\* The pack the resolver is to give for a descriptor.
ExpectedPack(model) ==
    IF model.defined /\ (MentionsCodex(model.id) \/ MentionsCodex(model.provider))
    THEN "peasant"
    ELSE "peon"

\* A volume within [0.0, 1.0].
InUnitRange(v) == v.kind = "num" /\ 0 <= v.n /\ v.n <= v.d

\* The modelled inputs that are no number within [0.0, 1.0], and the value
\* of each of the others, both written out by hand.
RejectedInputs ==
    { <<"1",".","5">>, <<"-","0",".","1">>, <<"a","b","c">>, <<"1","e","1">>,
      << >>, <<".">>, <<"I","n","f","i","n","i","t","y">>,
      <<"-","I","n","f","i","n","i","t","y">>, <<"N","a","N">>,
      <<"1",".","0","1">>, <<"e","5">>, <<"-",".","5">>, <<"2">>,
      <<"U+200B","0",".","5">> }

AcceptedInputs == VolumeInputs \ RejectedInputs

Tenths(k) == [kind |-> "num", neg |-> FALSE, n |-> k, d |-> 10]
Whole(k) == [kind |-> "num", neg |-> FALSE, n |-> k, d |-> 1]

ReadsAs(s) ==
    CASE s \in { <<"0",".","5">>, <<".","5">>, <<"5","e","-","1">>,
                 <<"\r","0",".","5">> } -> Tenths(5)
      [] s \in { <<"0",".","3">>, <<"0",".","3","a","b","c">> } -> Tenths(3)
      [] s = <<" ","0",".","7">> -> Tenths(7)
      [] s = <<"0",".","2","5">> ->
             [kind |-> "num", neg |-> FALSE, n |-> 25, d |-> 100]
      [] s \in { <<"0">>, <<"-","0">> } -> Whole(0)
      [] s \in { <<"1">>, <<"1",".","0">>, <<"+","1">>, <<"1",".">>,
                 <<"\f","U+00A0","1">> } -> Whole(1)

\* The inputs the volume claims call invalid: out of range or not a number.
InvalidInputs ==
    { <<"1",".","5">>, <<"-","0",".","1">>, <<"a","b","c">>, <<"2">>,
      <<"1",".","0","1">>, <<"-",".","5">>, <<"e","5">> }

ErrorNoted(o) == \E i \in DOMAIN o.notes : o.notes[i].level = "error"

\* The agent_start events of the last 10 seconds, the one at hand excluded.
RecentStarts ==
    Cardinality({i \in DOMAIN hist.starts : now - hist.starts[i] < 10000})

(***************************************************************************)
(* The claims.                                                             *)
(***************************************************************************)
\* C1: for a category whose list in the active pack has at least 2 distinct
\* files, a pickSound call returns a file of the list, and never the file the
\* previous pickSound call for that category returned while the pack stayed
\* active.
C1_NoImmediateRepeat ==
    [][\A c \in Categories, rnd \in RandomDraws :
          (/\ Cardinality(FilesOf(SoundsOf(currentPack, c))) >= 2
           /\ CallPickSound(c, rnd))
             => /\ ~out'.threw
                /\ out'.file \in FilesOf(SoundsOf(currentPack, c))
                /\ out'.file # Get(hist.picked, c)]_vars

\* A second call for a category of three files came right after one that
\* returned f1.wav.
C1_Witness ==
    /\ out.cat = "acknowledge"
    /\ Cardinality(FilesOf(SoundsOf(currentPack, "acknowledge"))) >= 2
    /\ out.prev = "f1.wav"
    /\ out.file = "f2.wav"

\* C2: at both switch sites (syncPackToModel and the model_select handler) a
\* switch to the pack that is already current changes neither currentPack nor
\* lastPlayed, and a switch to another pack sets currentPack to it and
\* leaves lastPlayed empty.
C2_PackSwitch ==
    [][(/\ out'.sync # Null
        /\ ModelSelect(out'.model) \/ CallSyncPackToModel(out'.model))
          => IF packForModel(out'.model) = currentPack
             THEN UNCHANGED <<currentPack, lastPlayed>>
             ELSE /\ currentPack' = packForModel(out'.model)
                  /\ lastPlayed' = EmptyRecord]_vars

\* The model_select handler has switched from peon to peasant.
C2_Witness ==
    /\ out.sync = "model_select"
    /\ currentPack = "peasant"
    /\ lastPlayed = EmptyRecord
    /\ out.sets = <<SwitchedStatus("castle", "peasant")>>

\* C3, as amended: a call of checkAnnoyed at time now removes exactly the
\* stored timestamps with now - t >= 10000, keeps the others, appends now,
\* and returns true iff the resulting sequence has at least 3 entries; calls
\* at 0, 1000, 2000 return false, false, true and calls at 0, 6000, 13000
\* return false, false, false.
C3_BurstDetector ==
    [][CallCheckAnnoyed
          => /\ promptTimestamps' =
                  Append(SelectSeq(promptTimestamps,
                                   LAMBDA t : ~(now - t >= 10000)), now)
             /\ out'.flag = (Len(promptTimestamps') >= 3)
             /\ promptTimestamps = << >> => ~out'.flag
             /\ (promptTimestamps = <<0>> /\ now \in {1000, 6000}) => ~out'.flag
             /\ (promptTimestamps = <<0, 1000>> /\ now = 2000) => out'.flag
             /\ (promptTimestamps = <<0, 6000>> /\ now = 13000) => ~out'.flag]_vars

\* The third call, at 10000 after calls at 0 and 5000, removed the timestamp
\* 0, which was exactly 10000 ms old, and returned false.
C3_Witness ==
    /\ now = 10000
    /\ out.dropped = <<0>>
    /\ promptTimestamps = <<5000, 10000>>
    /\ ~out.flag

\* C3 as claimed: the call removes exactly the timestamps with
\* now - t > 10000.
C3_AsClaimed ==
    [][CallCheckAnnoyed
          => /\ promptTimestamps' =
                  Append(SelectSeq(promptTimestamps,
                                   LAMBDA t : ~(now - t > 10000)), now)
             /\ out'.flag = (Len(promptTimestamps') >= 3)]_vars

\* C4: an agent_start event asks playSound for one category: annoyed when it
\* is at least the 3rd agent_start of the last 10 seconds, acknowledge
\* otherwise.  The burst check has run by then, whatever playSound does, and
\* what is played is a sound of that category in the pack of the event's
\* model.
C4_AgentStartCategory ==
    [][\A rnd \in EndDraws :
          (out'.sync # Null /\ AgentStart(out'.model, rnd))
             => /\ out'.cat = IF RecentStarts + 1 >= 3
                              THEN "annoyed" ELSE "acknowledge"
                /\ out'.flag = (out'.cat = "annoyed")
                /\ promptTimestamps' # << >>
                /\ promptTimestamps'[Len(promptTimestamps')] = now
                /\ Len(out'.played) <= 1
                /\ \A i \in DOMAIN out'.played :
                      /\ out'.played[i].pack = packForModel(out'.model)
                      /\ out'.played[i].file \in
                            FilesOf(SoundsOf(packForModel(out'.model),
                                             out'.cat))]_vars

\* The third agent_start within 10 seconds has played an annoyed line.
C4_Witness ==
    /\ out.cat = "annoyed"
    /\ out.flag
    /\ out.played # << >>
    /\ Len(hist.starts) >= 3

\* C5: while muted, playSound returns null for every category, runs no
\* afplay, and changes nothing of the module's state or of the UI.
C5_MutedPlaybackIsNoOp ==
    [][\A c \in Categories, rnd \in RandomDraws :
          (muted /\ CallPlaySound(c, rnd))
             => /\ out'.ret = Null
                /\ out'.played = << >>
                /\ ~out'.threw
                /\ UNCHANGED <<muted, volume, currentPack, lastPlayed,
                               promptTimestamps, status, timers, hist>>]_vars

\* playSound("greeting") was called on macOS while muted, with a greeting
\* played before and a timestamp stored.
C5_Witness ==
    /\ muted
    /\ isMacos
    /\ out.cat = "greeting"
    /\ out.ret = Null
    /\ "greeting" \in DOMAIN lastPlayed
    /\ promptTimestamps # << >>

\* C6: volume starts at 0.5 and stays within [0.0, 1.0]; no step of
\* /wc3-volume on an input that is out of range or no number changes it, and
\* a step that changes it is a step of /wc3-volume on an input within the
\* range, which it sets volume to.
C6_VolumeInUnitRange ==
    /\ volume = Tenths(5)
    /\ [][/\ InUnitRange(volume')
          /\ volume' # volume
                => /\ \A s \in RejectedInputs \cup {NoStr}, rnd \in RandomDraws :
                         ~(VolumeCommand(s, rnd) \/ VolumeAnswer(s, rnd))
                   /\ \E s \in AcceptedInputs, rnd \in RandomDraws :
                         /\ VolumeCommand(s, rnd) \/ VolumeAnswer(s, rnd)
                         /\ volume' = ReadsAs(s)]_vars

\* The prompt was answered "-0.1" after the volume had been set to 0.3.
C6_Witness ==
    /\ volume = Tenths(3)
    /\ ErrorNoted(out)
    /\ ~prompt.open

\* C7 as claimed: a /wc3-volume command given an invalid input, as the inline
\* argument or as the answer to its prompt, gives an error notification
\* and ends with volume as it was when the command began.
C7_AsClaimed ==
    [][\A input \in VolumeInputs \cup {NoStr}, rnd \in RandomDraws :
          (/\ prompt.open
           /\ prompt.rejected \/ input \in InvalidInputs
           /\ VolumeAnswer(input, rnd))
             => /\ ErrorNoted(out')
                /\ volume' = prompt.volume0]_vars

\* C8: packForModel gives peasant iff the id or the provider contains
\* "codex" in any letter case, and peon otherwise: for an undefined model,
\* absent fields, and ids or providers with "claude" or "anthropic", which
\* "codex" overrides.  The call changes no state.
C8_ResolverByCodex ==
    /\ out.pack # Null => out.pack = ExpectedPack(out.model)
    /\ out.pack \in {Null, "peon", "peasant"}
    /\ out.model = Model(<<"c","l","a","u","d","e","-","3","-","o","p","u","s">>, NoStr)
          => out.pack = "peon"
    /\ out.model = Model(<<"g","p","t","-","5","-","c","o","d","e","x">>, NoStr)
          => out.pack = "peasant"
    /\ out.model = Model(NoStr, <<"a","n","t","h","r","o","p","i","c">>)
          => out.pack = "peon"
    /\ (out.model = NoModel /\ out.pack # Null) => out.pack = "peon"
    /\ out.model = Model(<<"c","l","a","u","d","e","-","c","o","d","e","x">>,
                         <<"a","n","t","h","r","o","p","i","c">>)
          => out.pack = "peasant"
    /\ Mod = [muted |-> FALSE, volume |-> Tenths(5), currentPack |-> "peon",
              lastPlayed |-> EmptyRecord, promptTimestamps |-> << >>]

\* A Claude model of Anthropic whose id also names Codex resolved to peasant.
C8_Witness ==
    /\ out.model = Model(<<"c","l","a","u","d","e","-","c","o","d","e","x">>,
                         <<"a","n","t","h","r","o","p","i","c">>)
    /\ out.pack = "peasant"

\* C9: currentPack is always peon or peasant; after a model_select,
\* session_start or agent_start event with model m it is packForModel(m);
\* and a step that changes it is one of these three events.
C9_CurrentPackFollowsModel ==
    [][/\ currentPack \in Packs
       /\ currentPack' \in Packs
       /\ out'.sync # Null => currentPack' = packForModel(out'.model)
       /\ currentPack' # currentPack
             => /\ out'.sync # Null
                /\ \/ ModelSelect(out'.model)
                   \/ \E rnd \in RandomDraws :
                         \/ SessionStart(out'.model, rnd)
                         \/ AgentStart(out'.model, rnd)]_vars

\* An agent_start event with a Codex model has left the peasant pack current.
C9_Witness ==
    /\ out.sync = "syncPackToModel"
    /\ out.model = Model(<<"g","p","t","-","5","-","c","o","d","e","x">>, NoStr)
    /\ currentPack = "peasant"
    /\ out.cat = "acknowledge"
    /\ promptTimestamps # << >>

\* C10: for a category whose list in the active pack has exactly 1 entry, a
\* pickSound call returns that entry, whatever lastPlayed holds for the
\* category.
C10_SingleEntryAlwaysReturned ==
    [][\A c \in Categories, rnd \in RandomDraws :
          (/\ Len(SoundsOf(currentPack, c)) = 1
           /\ CallPickSound(c, rnd))
             => /\ ~out'.threw
                /\ out'.file = SoundsOf(currentPack, c)[1].file
                /\ out'.ret = SoundsOf(currentPack, c)[1].line
                /\ lastPlayed'[c] = SoundsOf(currentPack, c)[1].file]_vars

\* The only entry of complete was returned again, lastPlayed holding it.
C10_Witness ==
    /\ out.cat = "complete"
    /\ Len(SoundsOf(currentPack, "complete")) = 1
    /\ out.prev = "f1.wav"
    /\ out.file = "f1.wav"

\* C11: where the platform is not macOS, no afplay is ever run and no sound
\* line is ever shown; every call of playSound returns null, runs no afplay,
\* and changes nothing of the module's state (lastPlayed included) or of the
\* UI.
C11_NoPlaybackOffMacos ==
    /\ [](~isMacos => /\ out.played = << >>
                      /\ out.ret = Null
                      /\ hist.dispatched = EmptyRecord
                      /\ lastPlayed = EmptyRecord
                      /\ status = NoStatus)
    /\ [][\A c \in Categories, rnd \in RandomDraws :
             (~isMacos /\ CallPlaySound(c, rnd))
                => /\ out'.ret = Null
                   /\ out'.played = << >>
                   /\ ~out'.threw
                   /\ UNCHANGED <<muted, volume, currentPack, lastPlayed,
                                  promptTimestamps, status, timers, hist>>]_vars

\* playSound("acknowledge") was called off macOS, unmuted, with the peon
\* pack (which has an acknowledge line) current and a timestamp stored.
C11_Witness ==
    /\ ~isMacos
    /\ ~muted
    /\ currentPack = "peon"
    /\ out.cat = "acknowledge"
    /\ out.ret = Null
    /\ promptTimestamps # << >>

\* pickSound has nothing to pick from for the category in the pack: the
\* manifest does not load (loadManifest returns null), or its categories map
\* lacks the category, or the category's sound list is empty.
Unavailable(pack, category) ==
    LET f == disk[pack]
    IN  \/ f.kind # "json"
        \/ f.value.isNull
        \/ /\ f.value.hasCategories
           /\ \/ category \notin DOMAIN f.value.categories
              \/ /\ f.value.categories[category].hasSounds
                 /\ f.value.categories[category].sounds = << >>

\* C12: a step that asks pickSound or playSound for a category that the
\* current pack has nothing to pick from (manifest not loaded, category
\* absent, or list empty) gets no sound, ends without an exception, runs no
\* afplay, sets no status text and schedules no clear, and leaves
\* lastPlayed as it was at the call (as the handler's pack sync left it).
C12_NothingToPick ==
    [][(out'.cat # Null /\ Unavailable(currentPack', out'.cat))
          => /\ out'.file = Undefined
             /\ out'.ret \in {Null, Undefined}
             /\ ~out'.threw
             /\ out'.played = << >>
             /\ out'.sets = << >>
             /\ status' = status
             /\ timers' = timers
             /\ lastPlayed' = IF currentPack' # currentPack
                              THEN EmptyRecord ELSE lastPlayed]_vars

\* An agent_end event asked for complete, which the peasant pack lacks,
\* unmuted on macOS, with a greeting of the pack selected before; the peon
\* manifest of this world is missing.
C12_Witness ==
    /\ ~muted
    /\ isMacos
    /\ disk["peon"].kind = "missing"
    /\ currentPack = "peasant"
    /\ out.cat = "complete"
    /\ out.sync = Null
    /\ out.file = Undefined
    /\ lastPlayed = [c \in {"greeting"} |-> "f1.wav"]

\* C13 as claimed: no step ends in an exception, and a sound that pickSound
\* returns is an entry of the current pack's list for the category.
C13_AsClaimed ==
    /\ ~out.threw
    /\ out.file \notin {Null, Undefined}
          => out.file \in FilesOf(SoundsOf(currentPack, out.cat))

\* C14, as amended: while a pack stays current, a file dispatched to afplay
\* for a category with at least 2 distinct files in the pack is never the
\* file that pickSound last selected for that category in the pack.  (The
\* file last dispatched can come again: after a switch away and back, and
\* after a selection whose sound file is missing.)
C14_NoRepeatOfLastSelected ==
    [][\A i \in DOMAIN out'.played :
          (/\ Cardinality(FilesOf(SoundsOf(currentPack', out'.cat))) >= 2
           /\ currentPack' = currentPack)
             => /\ out'.played[i].pack = currentPack
                /\ out'.played[i].file \in FilesOf(SoundsOf(currentPack, out'.cat))
                /\ out'.played[i].file # Get(hist.picked, out'.cat)]_vars

\* Where f2.wav of peon is missing, /wc3-volume has dispatched the peon
\* greeting f1.wav while the status still shows the line of f1.wav that a
\* session_start dispatched before.
C14_Witness ==
    /\ <<"peon", "f2.wav">> \notin assets
    /\ currentPack = "peon"
    /\ out.cat = "greeting"
    /\ out.notes # << >>
    /\ out.played = <<Afplay("peon", "f1.wav", Tenths(3))>>
    /\ status = LineStatus("axe", Lines[1])
    /\ hist.dispatched = [c \in {"greeting"} |->
                             [pack |-> "peon", file |-> "f1.wav"]]

\* C14 as claimed: a file dispatched to afplay for a category with at least
\* 2 distinct files is never the file of the pack that was dispatched last
\* for that category.
C14_AsClaimed ==
    [][\A i \in DOMAIN out'.played :
          (/\ Cardinality(FilesOf(SoundsOf(currentPack', out'.cat))) >= 2
           /\ out'.cat \in DOMAIN hist.dispatched)
             => [pack |-> out'.played[i].pack, file |-> out'.played[i].file]
                   # hist.dispatched[out'.cat]]_vars

\* C15 as claimed: a call of playSound that selects a sound whose file does
\* not exist returns null, runs no afplay, and leaves the module's state,
\* lastPlayed for the category included, as it was before the call.
C15_AsClaimed ==
    [][\A c \in Categories, rnd \in RandomDraws :
          (/\ CallPlaySound(c, rnd)
           /\ out'.file \notin {Null, Undefined}
           /\ <<currentPack, out'.file>> \notin assets)
             => /\ out'.ret = Null
                /\ out'.played = << >>
                /\ UNCHANGED <<muted, volume, currentPack, lastPlayed,
                               promptTimestamps>>]_vars

\* C16: a step that leaves currentPack as it is (a selection, a playback
\* request, a burst check, a mute toggle, a volume command, agent_end,
\* tool_result, a sync or model_select to the pack already current, a
\* timer, the clock) leaves lastPlayed unchanged or sets just the entry of
\* the category it selected a sound for, to that sound's file; only a step
\* that changes currentPack drops entries, and it drops them all.
C16_LastPlayedKeptUnlessSwitch ==
    [][IF currentPack' # currentPack
       THEN /\ out'.sync # Null
            /\ \/ lastPlayed' = EmptyRecord
               \/ /\ out'.file \notin {Null, Undefined}
                  /\ lastPlayed' = Assign(EmptyRecord, out'.cat, out'.file)
       ELSE \/ lastPlayed' = lastPlayed
            \/ /\ out'.cat # Null
               /\ out'.file \notin {Null, Undefined}
               /\ lastPlayed' = Assign(lastPlayed, out'.cat, out'.file)]_vars

\* An agent_start event with a Claude model, the peon pack being current,
\* has selected an acknowledge line and kept the greeting entry that an
\* earlier /wc3-volume command left.
C16_Witness ==
    /\ out.sync = "syncPackToModel"
    /\ packForModel(out.model) = "peon"
    /\ currentPack = "peon"
    /\ out.cat = "acknowledge"
    /\ volume = Tenths(3)
    /\ lastPlayed = [c \in {"greeting", "acknowledge"} |->
                        IF c = "greeting" THEN "f2.wav" ELSE "f1.wav"]

\* C17: in every state, the manifests staying as they are, lastPlayed has
\* an entry for exactly the categories that pickSound returned a sound for
\* since the last pack switch, and the entry is the file pickSound returned
\* last for the category, which is the file of an entry of the current
\* pack's list for the category.
C17_LastPlayedIsLastPicked ==
    /\ DOMAIN lastPlayed = DOMAIN hist.picked
    /\ \A c \in DOMAIN lastPlayed :
          /\ c \in Categories
          /\ lastPlayed[c] = hist.picked[c]
          /\ lastPlayed[c] \in FilesOf(SoundsOf(currentPack, c))

\* After the model_select handler switched to peasant, pickSound has
\* returned the second acknowledge line of the pack, and nothing else was
\* selected since.
C17_Witness ==
    /\ currentPack = "peasant"
    /\ status = SwitchedStatus("castle", "peasant")
    /\ out.cat = "acknowledge"
    /\ out.file = "f2.wav"
    /\ out.prev = "f1.wav"
    /\ lastPlayed = [c \in {"acknowledge"} |-> "f2.wav"]

\* C18: a pending clear is never cancelled: it stays pending until it is
\* due and its callback runs, and the callback empties the status whatever
\* text is shown; an event that sets a status replaces the text shown and
\* adds its own clear, 3000 or 4000 ms ahead, to those pending.  So (the
\* witness) the clear of an older event removes the text of a newer one
\* before the newer text's own clear is due.
C18_ClearsNeverCancelled ==
    [][/\ \A due \in BagToSet(timers) :
             CopiesIn(due, timers') < CopiesIn(due, timers)
                => /\ due <= now
                   /\ timers' = timers (-) SetToBag({due})
                   /\ status' = NoStatus
                   /\ out'.cut = (status.shown /\ hist.shownUntil > now)
       /\ out'.sets # << >>
             => /\ status' = out'.sets[Len(out'.sets)]
                /\ \E delay \in {CLEAR_MS, CLEAR_COMPLETE_MS} :
                      /\ timers' = timers (+) SetToBag({now + delay})
                      /\ hist'.shownUntil = now + delay]_vars

\* At 3000 the clear of a session_start event at 0 has removed the text of
\* an agent_end event at 1000, whose own clear, still pending, is due at
\* 5000.
C18_Witness ==
    /\ now = CLEAR_MS
    /\ out.cut
    /\ status = NoStatus
    /\ timers = SetToBag({1000 + CLEAR_COMPLETE_MS})

\* C19: every status text set is eventually cleared.  A step sets a status
\* text iff it schedules a clear, exactly one and due later; so a clear is
\* pending only after a set, a text is shown only while a clear is pending,
\* and, timer callbacks being run when due, a text that is shown is
\* eventually removed and the channel ends up empty once all clears have
\* run.
C19_StatusEventuallyCleared ==
    /\ [](status.shown => timers # EmptyBag)
    /\ [][(\E due \in BagToSet(timers') :
              CopiesIn(due, timers') > CopiesIn(due, timers))
             <=> out'.sets # << >>]_vars
    /\ [][out'.sets # << >>
             => /\ Len(out'.sets) = 1
                /\ status' = out'.sets[1]
                /\ \E due \in BagToSet(timers') :
                      /\ due > now
                      /\ timers' = timers (+) SetToBag({due})]_vars
    /\ (status.shown ~> ~status.shown)
    /\ <>[](status = NoStatus /\ timers = EmptyBag)

\* At 5000 the clear of an agent_end event at 1000 has run, the last one
\* pending, and the channel is empty.
C19_Witness ==
    /\ now = 1000 + CLEAR_COMPLETE_MS
    /\ out = NoOut
    /\ status = NoStatus
    /\ timers = EmptyBag
    /\ "complete" \in DOMAIN lastPlayed

=============================================================================
